---------------------------- MODULE Spec2Model ----------------------------
(***************************************************************************)
(* State-machine model of PluginHttp (src/src/index.ts): the connect /     *)
(* disconnect lifecycle, the inbound request middleware, the configuration *)
(* (ILDCP) cache, URL templating, the per-origin HTTP/2 client table and   *)
(* sendData.  Every `await` of the source is a suspension point: a request *)
(* or a send is a process whose pc names the await it is suspended at, and *)
(* one action runs the code from one await to the next.                    *)
(*                                                                         *)
(* Strings the code computes on (addresses, URLs, header values) are       *)
(* sequences of one-character strings.  An optional value (`x?: T`) is the *)
(* empty sequence or the one-element sequence holding it.                  *)
(***************************************************************************)
EXTENDS Naturals, Sequences, FiniteSets

(***************************************************************************)
(* Bounds of the model.                                                    *)
(***************************************************************************)
MaxRequests == 2    \* inbound HTTP requests
MaxSends == 2       \* sendData calls

Reqs == 1..MaxRequests
Sends == 1..MaxSends

(***************************************************************************)
(* Optional values.                                                        *)
(***************************************************************************)
None == << >>
Some(v) == << v >>
Get(o) == o[1]

(***************************************************************************)
(* Strings as character sequences.                                         *)
(***************************************************************************)
LowerCase == {"a","b","c","d","e","f","g","h","i","j","k","l","m",
              "n","o","p","q","r","s","t","u","v","w","x","y","z"}
UpperCase == {"A","B","C","D","E","F","G","H","I","J","K","L","M",
              "N","O","P","Q","R","S","T","U","V","W","X","Y","Z"}
Digits == {"0","1","2","3","4","5","6","7","8","9"}

\* INVALID_SEGMENT anchored at the start of the string: only the first
\* character is tested.
INVALID_FIRST_CHARACTER(s) == s # << >> /\ s[1] \notin (LowerCase \cup UpperCase \cup Digits \cup {"_", "-"})

\* const INVALID_SEGMENT = new RegExp('[^A-Za-z0-9_\\-]')
SegmentChars == LowerCase \cup UpperCase \cup Digits \cup {"_", "-"}
INVALID_SEGMENT(s) == \E i \in 1..Len(s) : s[i] \notin SegmentChars

\* const MAX_ILP_PACKET_LENGTH = 32767
MAX_ILP_PACKET_LENGTH == 32767

\* String.prototype.substring(start): the characters from index start (0-based)
\* to the end; the empty string when start is past the end.
Substring(s, start) == IF start >= Len(s) THEN << >> ELSE SubSeq(s, start + 1, Len(s))

\* 1-based index of the first occurrence of character c in s at or after
\* position from; 0 when there is none.
RECURSIVE IndexOfChar(_, _, _)
IndexOfChar(s, c, from) ==
    IF from > Len(s) THEN 0
    ELSE IF s[from] = c THEN from
    ELSE IndexOfChar(s, c, from + 1)

\* String.prototype.split('.')[0]: the characters before the first '.'.
FirstSegment(s) ==
    LET i == IndexOfChar(s, ".", 1)
    IN  IF i = 0 THEN s ELSE SubSeq(s, 1, i - 1)

\* Whether pattern p occurs in s at position i.
OccursAt(s, p, i) == i + Len(p) - 1 <= Len(s) /\ SubSeq(s, i, i + Len(p) - 1) = p

\* 1-based index of the first occurrence of the string p in s at or after
\* position from; 0 when there is none.
RECURSIVE IndexOf(_, _, _)
IndexOf(s, p, from) ==
    IF from + Len(p) - 1 > Len(s) THEN 0
    ELSE IF OccursAt(s, p, from) THEN from
    ELSE IndexOf(s, p, from + 1)

\* String.prototype.replace(pattern, replacement) with a string pattern:
\* only the first occurrence is replaced; s unchanged when there is none.
Replace(s, p, by) ==
    LET i == IndexOf(s, p, 1)
    IN  IF i = 0 THEN s
        ELSE SubSeq(s, 1, i - 1) \o by \o SubSeq(s, i + Len(p), Len(s))

\* ASCII lower-casing, which the URL parser applies to the host.
LowerChar(c) ==
    CASE c = "A" -> "a" [] c = "B" -> "b" [] c = "C" -> "c" [] c = "D" -> "d"
      [] c = "E" -> "e" [] c = "F" -> "f" [] c = "G" -> "g" [] c = "H" -> "h"
      [] c = "I" -> "i" [] c = "J" -> "j" [] c = "K" -> "k" [] c = "L" -> "l"
      [] c = "M" -> "m" [] c = "N" -> "n" [] c = "O" -> "o" [] c = "P" -> "p"
      [] c = "Q" -> "q" [] c = "R" -> "r" [] c = "S" -> "s" [] c = "T" -> "t"
      [] c = "U" -> "u" [] c = "V" -> "v" [] c = "W" -> "w" [] c = "X" -> "x"
      [] c = "Y" -> "y" [] c = "Z" -> "z" [] OTHER -> c
Lower(s) == [i \in 1..Len(s) |-> LowerChar(s[i])]

\* const { origin, pathname } = new URL(url): the origin is the scheme and the
\* lower-cased authority; the pathname is the rest, "/" when the rest is empty.
SchemeEnd(url) == IndexOf(url, <<":", "/", "/">>, 1) + 2
PathStart(url) == IndexOfChar(url, "/", SchemeEnd(url) + 1)
UrlOrigin(url) ==
    IF PathStart(url) = 0 THEN Lower(url) ELSE Lower(SubSeq(url, 1, PathStart(url) - 1))
UrlPathname(url) ==
    IF PathStart(url) = 0 THEN <<"/">> ELSE SubSeq(url, PathStart(url), Len(url))

(***************************************************************************)
(* Data: addresses, packets, configuration responses, URLs.                *)
(***************************************************************************)
\* parsed.destination === 'peer.config'
PEER_CONFIG == <<"p","e","e","r",".","c","o","n","f","i","g">>

\* Local addresses a discovery round-trip may report: g.n and g.m.
AddrN == <<"g",".","n">>
AddrM == <<"g",".","m">>
IldcpValues == { [clientAddress |-> a, assetCode |-> "XYZ"] : a \in {AddrN, AddrM} }

\* Destinations of the packets handed to sendData: g.n.a.1, g.n.A.1,
\* g.n.b/c.x (a segment with a character outside the allowed set) and
\* x.y (not under the local address).
DestA == <<"g",".","n",".","a",".","1">>
DestUpperA == <<"g",".","n",".","A",".","1">>
DestBad == <<"g",".","n",".","b","/","c",".","x">>
DestOther == <<"x",".","y">>
SendDestinations == {DestA, DestUpperA, DestBad, DestOther}

\* Destinations of inbound packets: the reserved discovery address and
\* an ordinary one (g.n.a.1).
InboundDestinations == {PEER_CONFIG, DestA}

\* A binary buffer: its packet type, the Prepare's destination (empty for
\* the other types), the buffer's identity (each request body, each send
\* and each handler result is its own buffer) and, for a handler's result,
\* the packet it answers.
Buffer(type, destination, id) ==
    [type |-> type, destination |-> destination, id |-> id, re |-> 0, text |-> ""]
TextBody(text) ==
    [type |-> "text", destination |-> << >>, id |-> 0, re |-> 0, text |-> text]

\* Bodies a peer may post as request r: a Prepare to one of the inbound
\* destinations, or a buffer that is no Prepare.
InboundBodies(r) ==
    { Buffer("prepare", d, r) : d \in InboundDestinations } \cup { Buffer("fulfill", << >>, r) }

\* Buffers the caller may hand to send s: a Prepare to one of the
\* destinations, or a buffer that is no Prepare.
PrepareBuffers(s, destinations) ==
    { Buffer("prepare", d, MaxRequests + s) : d \in destinations }
SendBuffers(s) ==
    PrepareBuffers(s, SendDestinations) \cup { Buffer("fulfill", << >>, MaxRequests + s) }

\* Body lengths a peer may post: within the ceiling, at it, and past it.
BodyLengths == {1, MAX_ILP_PACKET_LENGTH, MAX_ILP_PACKET_LENGTH + 1}

\* Values of the ILP-Peer-Name header; ctx.get gives '' for a missing header.
PeerNames == { <<"b","o","b">>, << >> }

\* IlpPacket.deserializeIlpPrepare(packet) throws on a buffer that is no Prepare.
IsPrepare(packet) == packet.type = "prepare"

\* outgoing.url: the placeholder in the path (http://x/%/i), in the host
\* (http://%.x/i), or twice (http://%.x/%).
UrlPathTemplate == <<"h","t","t","p",":","/","/","x","/","%","/","i">>
UrlHostTemplate == <<"h","t","t","p",":","/","/","%",".","x","/","i">>
UrlTwoTemplate == <<"h","t","t","p",":","/","/","%",".","x","/","%">>
Urls == {UrlPathTemplate, UrlHostTemplate, UrlTwoTemplate}

Handlers == {"h1", "h2"}
NoHandler == "none"

(***************************************************************************)
(* State.                                                                  *)
(***************************************************************************)
VARIABLES
    connected,          \* this._connected
    multi,              \* this._multi
    multiDelimiter,     \* this._multiDelimiter
    ildcp,              \* this._ildcp (optional)
    url,                \* this._url
    http2,              \* this._http2
    http2Clients,       \* this._http2Clients: origin -> client, on the origins that have an entry
    sendIlpDestination, \* this._sendIlpDestination
    dataHandler,        \* this._dataHandler (NoHandler: undefined)
    httpServer,         \* this._httpServer: none, starting, listening, failed, draining, closed
    clients,            \* the Http2Client objects created so far: [origin, closed]
    lastCall,           \* the last observed connect() or disconnect() call
    tick,               \* flipped by every observed call
    emitted,            \* the events the last observed call emitted
    seen,               \* the handler slot as it was when each observed request arrived
    req,                \* the inbound requests
    snd,                \* the sendData calls
    firstCached         \* the first value this._ildcp held (optional)

config == <<multi, multiDelimiter, url, http2, sendIlpDestination>>
observed == <<lastCall, tick, emitted, seen>>
lifecycle == <<connected, httpServer, observed>>
vars == <<connected, multi, multiDelimiter, ildcp, url, http2, http2Clients,
          sendIlpDestination, dataHandler, httpServer, clients, lastCall, tick,
          emitted, seen, req, snd, firstCached>>

\* A request that has not arrived yet.
NewRequest ==
    [pc |-> "new", method |-> "", auth |-> "", status |-> 0, body |-> None, packet |-> None,
     name |-> << >>,
     rt |-> FALSE, via |-> NoHandler, val |-> None, arg |-> None, h |-> NoHandler,
     ret |-> None, branch |-> ""]

\* A sendData call that has not been made yet.
NewSend ==
    [pc |-> "new", data |-> None, headers |-> None, rt |-> FALSE, via |-> NoHandler,
     val |-> None,
     url |-> << >>, client |-> 0, path |-> << >>, result |-> None, error |-> ""]

\* constructor: disconnected, no handler, no client; multi, http2,
\* sendIlpDestination, the outgoing URL and a pre-known ildcp are options.
Init ==
    /\ connected = FALSE
    /\ multi \in BOOLEAN
    /\ multiDelimiter = <<"%">>
    /\ ildcp \in {None} \cup { Some(v) : v \in IldcpValues }
    /\ url \in Urls
    /\ http2 \in BOOLEAN
    /\ http2Clients = << >>
    /\ sendIlpDestination \in BOOLEAN
    /\ dataHandler = NoHandler
    /\ httpServer = "none"
    /\ clients = << >>
    /\ lastCall = "none"
    /\ tick = FALSE
    /\ emitted = << >>
    /\ seen = [r \in Reqs |-> NoHandler]
    /\ req = [r \in Reqs |-> NewRequest]
    /\ snd = [s \in Sends |-> NewSend]
    /\ firstCached = ildcp

(***************************************************************************)
(* connect() and disconnect().                                             *)
(***************************************************************************)
\* ConnectReturnsEarly without its look at the flag.
ConnectNeverReturnsEarly == FALSE

\* if (this._connected) return
ConnectReturnsEarly == connected

\* if (!this._connected) return
DisconnectReturnsEarly == ~connected

\* lib/http2: new Http2Client(origin, ...) is a client of that origin, open;
\* close() closes it.
NewHttp2Client(origin) == [origin |-> origin, closed |-> FALSE]
CloseHttp2Client(client) == [client EXCEPT !.closed = TRUE]

\* for (const client of Object.values(this._http2Clients)) client.close()
CloseClients ==
    [i \in DOMAIN clients |->
        IF \E o \in DOMAIN http2Clients : http2Clients[o] = i
        THEN CloseHttp2Client(clients[i])
        ELSE clients[i]]

\* this.emit('connect')
ConnectEmits == IF ConnectReturnsEarly THEN << >> ELSE <<"connect">>

\* this.emit('disconnect')
DisconnectEmits == IF DisconnectReturnsEarly THEN << >> ELSE <<"disconnect">>

\* connect(): a new Koa app and server; listen() is called, the flag is set
\* and 'connect' is emitted before the listen attempt completes.
ConnectCall ==
    /\ IF ConnectReturnsEarly
       THEN UNCHANGED <<connected, httpServer>>
       ELSE /\ httpServer' = "starting"
            /\ connected' = TRUE
    /\ UNCHANGED <<config, ildcp, http2Clients, dataHandler, clients, req, snd,
                   firstCached>>

\* The listen attempt of this._app.listen(this._port) completes: the port is bound.
ListenOk ==
    /\ httpServer = "starting"
    /\ httpServer' = "listening"
    /\ UNCHANGED <<config, connected, ildcp, http2Clients, dataHandler, clients,
                   observed, req, snd, firstCached>>

\* The listen attempt fails (the port is in use): the server emits 'error'.
ListenFail ==
    /\ httpServer = "starting"
    /\ httpServer' = "failed"
    /\ UNCHANGED <<config, connected, ildcp, http2Clients, dataHandler, clients,
                   observed, req, snd, firstCached>>

\* disconnect(): close() stops a listening server from accepting connections;
\* the connections it has keep being served.
DisconnectCall ==
    /\ IF DisconnectReturnsEarly
       THEN UNCHANGED <<connected, httpServer, clients>>
       ELSE /\ clients' = CloseClients
            /\ connected' = FALSE
            /\ httpServer' = IF httpServer = "listening" THEN "draining" ELSE "closed"
    /\ UNCHANGED <<config, ildcp, http2Clients, dataHandler, req, snd,
                   firstCached>>

\* The calls, unobserved.
Connect == ConnectCall /\ UNCHANGED observed
Disconnect == DisconnectCall /\ UNCHANGED observed

\* The calls, observed: which call was made and what it emitted.
ObservedConnect ==
    /\ ConnectCall
    /\ lastCall' = "connect"
    /\ tick' = ~tick
    /\ emitted' = ConnectEmits
    /\ UNCHANGED seen

ObservedDisconnect ==
    /\ DisconnectCall
    /\ lastCall' = "disconnect"
    /\ tick' = ~tick
    /\ emitted' = DisconnectEmits
    /\ UNCHANGED seen

(***************************************************************************)
(* registerDataHandler(handler) and deregisterDataHandler().               *)
(***************************************************************************)
RegisterDataHandler(handler) ==
    /\ dataHandler' = handler
    /\ UNCHANGED <<config, lifecycle, ildcp, http2Clients, clients, req, snd,
                   firstCached>>

DeregisterDataHandler ==
    /\ dataHandler' = NoHandler
    /\ UNCHANGED <<config, lifecycle, ildcp, http2Clients, clients, req, snd,
                   firstCached>>

(***************************************************************************)
(* _fetchIldcp(), up to its await: what the call does to a caller's record *)
(* c (a request or a send).  A cached value is returned as it is at the    *)
(* call; otherwise ILDCP.fetch invokes the handler (via) and the caller    *)
(* waits for the round-trip (rt); with no handler the call throws.         *)
(***************************************************************************)
\* if (!this._ildcp)
CacheEmpty == ildcp = None

\* if (this._dataHandler)
HandlerRegistered == dataHandler # NoHandler

\* FetchIldcpThrows without its look at the handler slot.
FetchIldcpNeverThrows == FALSE

\* throw new Error('data handler must be registered to fetch ildcp')
FetchIldcpThrows == CacheEmpty /\ ~HandlerRegistered

\* FetchIldcpStartsRoundTrip without its look at the cache.
FetchIldcpAlwaysRoundTrip == HandlerRegistered

FetchIldcpStartsRoundTrip == CacheEmpty /\ HandlerRegistered

FetchIldcpCall(c) ==
    IF FetchIldcpStartsRoundTrip
    THEN [c EXCEPT !.rt = TRUE, !.via = dataHandler, !.val = None]
    ELSE [c EXCEPT !.rt = FALSE, !.val = ildcp]

\* return (this._ildcp = await ILDCP.fetch(this._dataHandler)): the value
\* written to the cache when a round-trip returns v.
CacheAfterRoundTrip(v) == Some(v)

(***************************************************************************)
(* The request middleware of connect().  A request's record: pc (new,      *)
(* verify, body, ildcp, handler, done), its method, what _verifyToken      *)
(* answered (auth:                                                         *)
(* accepted, rejected), the response (status, body), the body read         *)
(* (packet), the ILP-Peer-Name header (name), the _fetchIldcp call (rt,    *)
(* val), the handler invocation (h, arg: the buffer passed, ret: the       *)
(* buffer returned) and the branch that wrote the response.                *)
(***************************************************************************)
Methods == {"GET", "POST"}

\* Respond without the return that follows the write.
RespondAndContinue(c, status, body, branch) ==
    [c EXCEPT !.status = status, !.body = Some(body), !.branch = branch]

\* ctx.body = ... / ctx.throw(status, message): the response is written and
\* the middleware returns.
Respond(c, status, body, branch) ==
    [c EXCEPT !.pc = "done", !.status = status, !.body = Some(body), !.branch = branch]

\* IsHealthProbe comparing with the lower-case method name.
IsLowerCaseGet(method) == method = "get"

\* if (ctx.method === 'GET')
IsHealthProbe(method) == method = "GET"

\* Lines 105-110: the health probe, else the call of _verifyToken.
OnRequest(c, method) ==
    IF IsHealthProbe(method)
    THEN Respond([c EXCEPT !.method = method], 200, TextBody("OK"), "health")
    ELSE [c EXCEPT !.pc = "verify", !.method = method]

\* OnVerified without its check of the token's verification.
OnVerifiedNoAuth(c, verified) ==
    IF ~connected
    THEN Respond(c, 502, TextBody("server is closed"), "closed")
    ELSE [c EXCEPT !.pc = "body"]

\* OnVerified without its check of the connected flag.
OnVerifiedNoGate(c, verified) ==
    IF ~verified
    THEN Respond(c, 401, TextBody("invalid authorization"), "unauthorized")
    ELSE [c EXCEPT !.pc = "body"]

\* Lines 110-121: after the token verification, up to the call of raw().
OnVerified(c, verified) ==
    IF ~verified
    THEN Respond(c, 401, TextBody("invalid authorization"), "unauthorized")
    ELSE IF ~connected
    THEN Respond(c, 502, TextBody("server is closed"), "closed")
    ELSE [c EXCEPT !.pc = "body"]

\* Intercepts without its check of the multi-tenant flag.
InterceptsAlways(packet) == packet.destination = PEER_CONFIG

\* if (parsed.destination === 'peer.config'), inside if (this._multi)
Intercepts(packet) == multi /\ packet.destination = PEER_CONFIG

\* clientAddress: ildcp.clientAddress + '.' + name
TenantAddress(base, name) == base \o <<".">> \o name

\* ILDCP.serializeIldcpResponse({ ...ildcp, clientAddress: ... })
DiscoveryResponse(v, name) ==
    [type |-> "ildcp_response", destination |-> << >>, id |-> 0, re |-> 0, text |-> "",
     clientAddress |-> TenantAddress(v.clientAddress, name), assetCode |-> v.assetCode]

\* Dispatch handing the handler a copy of the buffer (another buffer).
DispatchOtherBuffer(c, packet) ==
    IF dataHandler = NoHandler
    THEN Respond(c, 502, TextBody("no handler registered."), "noHandler")
    ELSE [c EXCEPT !.pc = "handler", !.h = dataHandler,
                   !.arg = Some([packet EXCEPT !.id = 0])]

\* Dispatch to the handler that was registered first, whatever the slot
\* holds now.
DispatchFirstHandler(c, packet) ==
    IF dataHandler = NoHandler
    THEN Respond(c, 502, TextBody("no handler registered."), "noHandler")
    ELSE [c EXCEPT !.pc = "handler", !.h = "h1", !.arg = Some(packet)]

\* Dispatch without its check of the handler slot.
DispatchNoCheck(c, packet) ==
    [c EXCEPT !.pc = "handler", !.h = dataHandler, !.arg = Some(packet)]

\* Lines 139-144: general dispatch, up to the await of the handler.
Dispatch(c, packet) ==
    IF dataHandler = NoHandler
    THEN Respond(c, 502, TextBody("no handler registered."), "noHandler")
    ELSE [c EXCEPT !.pc = "handler", !.h = dataHandler, !.arg = Some(packet)]

\* Lines 121-144: after the body read, up to the next await.  raw() rejects
\* a body past the limit with 413; deserializeIlpPrepare throws on a buffer
\* that is no Prepare and _fetchIldcp throws with no cache and no handler
\* (an error thrown in the middleware is answered 500).
OnBody(c, len, packet, name) ==
    IF len > MAX_ILP_PACKET_LENGTH
    THEN Respond(c, 413, TextBody("request entity too large"), "tooLarge")
    ELSE IF multi /\ ~IsPrepare(packet)
    THEN Respond([c EXCEPT !.packet = Some(packet)], 500,
                 TextBody("Internal Server Error"), "parseError")
    ELSE IF Intercepts(packet)
    THEN IF FetchIldcpThrows
         THEN Respond([c EXCEPT !.packet = Some(packet), !.name = name], 500,
                      TextBody("Internal Server Error"), "discoveryFailed")
         ELSE FetchIldcpCall([c EXCEPT !.pc = "ildcp", !.packet = Some(packet),
                                       !.name = name])
    ELSE Dispatch([c EXCEPT !.packet = Some(packet),
                            !.name = IF multi THEN name ELSE << >>], packet)

\* Lines 130-135: the discovery response, from the value _fetchIldcp returned.
OnIldcp(c, v) == Respond([c EXCEPT !.val = Some(v)], 200, DiscoveryResponse(v, c.name), "discovery")

\* ctx.body = await this._dataHandler(packet)
OnHandlerResult(c, reply) == Respond(c, 200, reply, "dispatched")

\* A request arrives on a connection of the server: a listening server
\* accepts connections, a closed one still serves those it has.
ReqArriveCall(r) ==
    /\ httpServer \in {"listening", "draining"}
    /\ req[r].pc = "new"
    /\ IF r = 1 THEN TRUE ELSE req[r - 1].pc # "new"
    /\ \E method \in Methods : req' = [req EXCEPT ![r] = OnRequest(@, method)]
    /\ UNCHANGED <<config, connected, httpServer, ildcp, http2Clients, dataHandler,
                   clients, snd, firstCached>>

\* The arrival, unobserved.
ReqArrive(r) == ReqArriveCall(r) /\ UNCHANGED observed

\* The arrival, observed: what the handler slot held at that moment.
ObservedReqArrive(r) ==
    /\ ReqArriveCall(r)
    /\ seen' = [seen EXCEPT ![r] = dataHandler]
    /\ UNCHANGED <<lastCall, tick, emitted>>

\* lib/auth: verifyToken resolves with true or false and never rejects.
VerifyTokenResults == BOOLEAN

\* this._verifyToken(...) resolves.
ReqVerified(r) ==
    /\ req[r].pc = "verify"
    /\ \E verified \in VerifyTokenResults :
          req' = [req EXCEPT ![r] =
                    OnVerified([@ EXCEPT !.auth = IF verified THEN "accepted" ELSE "rejected"],
                               verified)]
    /\ UNCHANGED <<config, lifecycle, ildcp, http2Clients, dataHandler, clients,
                   snd, firstCached>>

\* raw(ctx.req, ...) resolves or rejects, for a body of one of the lengths
\* and contents and an ILP-Peer-Name header of one of the names.
ReqBodyReadOf(r, lengths, bodies, names) ==
    /\ req[r].pc = "body"
    /\ \E len \in lengths, packet \in bodies, name \in names :
          /\ req' = [req EXCEPT ![r] = OnBody(@, len, packet, name)]
    /\ UNCHANGED <<config, lifecycle, ildcp, http2Clients, dataHandler, clients,
                   snd, firstCached>>

ReqBodyRead(r) == ReqBodyReadOf(r, BodyLengths, InboundBodies(r), PeerNames)

\* await this._fetchIldcp() resumes with the value cached at the call.
ReqIldcpCached(r) ==
    /\ req[r].pc = "ildcp"
    /\ ~req[r].rt
    /\ req' = [req EXCEPT ![r] = OnIldcp(@, Get(@.val))]
    /\ UNCHANGED <<config, lifecycle, ildcp, http2Clients, dataHandler, clients,
                   snd, firstCached>>

\* The round-trip of ILDCP.fetch returns v: the cache is written and the
\* request resumes with v.
ReqIldcpFetched(r) ==
    /\ req[r].pc = "ildcp"
    /\ req[r].rt
    /\ \E v \in IldcpValues :
          /\ ildcp' = CacheAfterRoundTrip(v)
          /\ firstCached' = IF firstCached = None THEN ildcp' ELSE firstCached
          /\ req' = [req EXCEPT ![r] = OnIldcp(@, v)]
    /\ UNCHANGED <<config, lifecycle, http2Clients, dataHandler, clients, snd>>

\* The round-trip fails (the handler rejects or answers with a Reject).
ReqIldcpFailed(r) ==
    /\ req[r].pc = "ildcp"
    /\ req[r].rt
    /\ req' = [req EXCEPT ![r] = Respond(@, 500, TextBody("Internal Server Error"),
                                         "discoveryFailed")]
    /\ UNCHANGED <<config, lifecycle, ildcp, http2Clients, dataHandler, clients,
                   snd, firstCached>>

\* The buffer a handler returns for the buffer it was given.
HandlerReply(type, arg) == [Buffer(type, << >>, 0) EXCEPT !.re = arg.id]

\* The handler resolves with a buffer of its own, answering the buffer it got.
ReqHandlerDone(r) ==
    /\ req[r].pc = "handler"
    /\ \E type \in {"fulfill", "reject"} :
          LET reply == HandlerReply(type, Get(req[r].arg))
          IN  req' = [req EXCEPT ![r] = OnHandlerResult([@ EXCEPT !.ret = Some(reply)], reply)]
    /\ UNCHANGED <<config, lifecycle, ildcp, http2Clients, dataHandler, clients,
                   snd, firstCached>>

\* The handler rejects.
ReqHandlerFailed(r) ==
    /\ req[r].pc = "handler"
    /\ req' = [req EXCEPT ![r] = Respond(@, 500, TextBody("Internal Server Error"),
                                         "handlerFailed")]
    /\ UNCHANGED <<config, lifecycle, ildcp, http2Clients, dataHandler, clients,
                   snd, firstCached>>

(***************************************************************************)
(* _generateUrl, _getHttp2ClientForOrigin, _fetch and sendData.  A send's  *)
(* record: pc (new, token, url, fetch, done), the buffer (data), the       *)
(* ILP-Destination header (optional), the _fetchIldcp call (rt, val), the  *)
(* URL requested, the client and the path the request was issued with      *)
(* (client 0: the one-shot fetch), and the result or the error thrown.     *)
(***************************************************************************)
\* destination.substring(ildcp.clientAddress.length + 1).split('.')[0]
Segment(destination, v) == FirstSegment(Substring(destination, Len(v.clientAddress) + 1))

\* return this._url.replace(this._multiDelimiter, segment)
GenerateUrl(segment) == Replace(url, multiDelimiter, segment)

\* NeedsClient without its look at the table.
NeedsClientAlways(origin) == TRUE

\* if (!this._http2Clients[origin])
NeedsClient(origin) == origin \notin DOMAIN http2Clients

\* _getHttp2ClientForOrigin(origin): the client returned, a new one when
\* the table has none for the origin.
Http2ClientForOrigin(origin) ==
    IF NeedsClient(origin) THEN Len(clients) + 1 ELSE http2Clients[origin]

Fail(c, error) == [c EXCEPT !.pc = "done", !.error = error]

\* _fetch(url, opts) for send s with record c: over the origin's client
\* with the pathname when http2 is selected, else a one-shot fetch of the URL.
Fetch(s, c, u) ==
    IF http2
    THEN LET origin == UrlOrigin(u)
             client == Http2ClientForOrigin(origin)
         IN  /\ clients' = IF client > Len(clients)
                           THEN Append(clients, NewHttp2Client(origin))
                           ELSE clients
             /\ http2Clients' = [o \in DOMAIN http2Clients \cup {origin} |->
                                    IF o = origin THEN client ELSE http2Clients[o]]
             /\ snd' = [snd EXCEPT ![s] = [c EXCEPT !.pc = "fetch", !.url = u,
                                                    !.client = client,
                                                    !.path = UrlPathname(u)]]
    ELSE /\ snd' = [snd EXCEPT ![s] = [c EXCEPT !.pc = "fetch", !.url = u]]
         /\ UNCHANGED <<clients, http2Clients>>

\* OnSendData without its check of the connected flag.
OnSendDataNoGate(c, data) == [c EXCEPT !.pc = "token", !.data = Some(data)]

\* Lines 222-227: the check of the connected flag, up to the await of _getToken().
OnSendData(c, data) ==
    IF ~connected
    THEN Fail(c, "plugin is not connected.")
    ELSE [c EXCEPT !.pc = "token", !.data = Some(data)]

\* sendData(data) is called.
SendDataCall(s, data) ==
    /\ snd[s].pc = "new"
    /\ IF s = 1 THEN TRUE ELSE snd[s - 1].pc # "new"
    /\ snd' = [snd EXCEPT ![s] = OnSendData(@, data)]
    /\ UNCHANGED <<config, lifecycle, ildcp, http2Clients, dataHandler, clients,
                   req, firstCached>>

\* await this._getToken() rejects.
SendTokenFailed(s) ==
    /\ snd[s].pc = "token"
    /\ snd' = [snd EXCEPT ![s] = Fail(@, "token")]
    /\ UNCHANGED <<config, lifecycle, ildcp, http2Clients, dataHandler, clients,
                   req, firstCached>>

\* await this._getToken() resolves: lines 226-246, up to the next await.
SendToken(s) ==
    /\ snd[s].pc = "token"
    /\ LET data == Get(snd[s].data)
           c == [snd[s] EXCEPT !.headers = IF sendIlpDestination
                                           THEN Some(data.destination) ELSE None]
       IN  IF (multi \/ sendIlpDestination) /\ ~IsPrepare(data)
           THEN /\ snd' = [snd EXCEPT ![s] = Fail(@, "Packet has incorrect type")]
                /\ UNCHANGED <<clients, http2Clients>>
           ELSE IF multi
           THEN /\ snd' = [snd EXCEPT ![s] =
                             IF FetchIldcpThrows
                             THEN Fail(c, "data handler must be registered to fetch ildcp")
                             ELSE FetchIldcpCall([c EXCEPT !.pc = "url"])]
                /\ UNCHANGED <<clients, http2Clients>>
           ELSE Fetch(s, c, url)
    /\ UNCHANGED <<config, lifecycle, ildcp, dataHandler, req, firstCached>>

\* Lines 187-197 and 246: _generateUrl after _fetchIldcp returned v, then _fetch.
OnUrl(s, v) ==
    LET segment == Segment(Get(snd[s].data).destination, v)
        c == [snd[s] EXCEPT !.val = Some(v)]
    IN  IF INVALID_SEGMENT(segment)
        THEN /\ snd' = [snd EXCEPT ![s] = Fail(c, "invalid address segment")]
             /\ UNCHANGED <<clients, http2Clients>>
        ELSE Fetch(s, c, GenerateUrl(segment))

\* await this._fetchIldcp() resumes with the value cached at the call.
SendUrlCached(s) ==
    /\ snd[s].pc = "url"
    /\ ~snd[s].rt
    /\ OnUrl(s, Get(snd[s].val))
    /\ UNCHANGED <<config, lifecycle, ildcp, dataHandler, req, firstCached>>

\* The round-trip of ILDCP.fetch returns v: the cache is written.
SendUrlFetched(s) ==
    /\ snd[s].pc = "url"
    /\ snd[s].rt
    /\ \E v \in IldcpValues :
          /\ ildcp' = CacheAfterRoundTrip(v)
          /\ firstCached' = IF firstCached = None THEN ildcp' ELSE firstCached
          /\ OnUrl(s, v)
    /\ UNCHANGED <<config, lifecycle, dataHandler, req>>

\* The round-trip fails.
SendUrlFailed(s) ==
    /\ snd[s].pc = "url"
    /\ snd[s].rt
    /\ snd' = [snd EXCEPT ![s] = Fail(@, "ildcp fetch failed")]
    /\ UNCHANGED <<config, lifecycle, ildcp, http2Clients, dataHandler, clients,
                   req, firstCached>>

\* The peer answers: res.ok, or a status that is no success.
SendResponse(s) ==
    /\ snd[s].pc = "fetch"
    /\ \E ok \in BOOLEAN :
          snd' = [snd EXCEPT ![s] =
                    IF ok
                    THEN [@ EXCEPT !.pc = "done",
                                   !.result = Some(HandlerReply("fulfill", Get(snd[s].data)))]
                    ELSE Fail(@, "failed to fetch. code=500")]
    /\ UNCHANGED <<config, lifecycle, ildcp, http2Clients, dataHandler, clients,
                   req, firstCached>>

(***************************************************************************)
(* Specifications.                                                         *)
(***************************************************************************)
Lifecycle == Connect \/ ListenOk \/ ListenFail \/ Disconnect

Registration ==
    \/ \E handler \in Handlers : RegisterDataHandler(handler)
    \/ DeregisterDataHandler

Inbound ==
    \E r \in Reqs :
        \/ ReqArrive(r)
        \/ ReqVerified(r)
        \/ ReqBodyRead(r)
        \/ ReqIldcpCached(r)
        \/ ReqIldcpFetched(r)
        \/ ReqIldcpFailed(r)
        \/ ReqHandlerDone(r)
        \/ ReqHandlerFailed(r)

\* The steps of a send after its call: those every send can take, and
\* those of a discovery round-trip.
SendStep(s) ==
    \/ SendTokenFailed(s)
    \/ SendToken(s)
    \/ SendUrlCached(s)
    \/ SendResponse(s)

SendRoundTripStep(s) ==
    \/ SendUrlFetched(s)
    \/ SendUrlFailed(s)

Outbound ==
    \E s \in Sends :
        \/ \E data \in SendBuffers(s) : SendDataCall(s, data)
        \/ SendStep(s)
        \/ SendRoundTripStep(s)

\* The whole plugin, under every option.  The properties below are checked
\* under the specifications that follow, each of which fixes the options
\* and the inputs its properties do not depend on.
Next == Lifecycle \/ Registration \/ Inbound \/ Outbound

Spec == Init /\ [][Next]_vars

\* The inbound side alone: the options sendData reads are fixed, and one
\* handler is registered and deregistered.
InitInbound ==
    /\ Init
    /\ url = UrlPathTemplate
    /\ ~http2
    /\ ~sendIlpDestination

NextInbound ==
    \/ Lifecycle
    \/ RegisterDataHandler("h1")
    \/ DeregisterDataHandler
    \/ Inbound

SpecInbound == InitInbound /\ [][NextInbound]_vars

\* The inbound side when every await of the middleware settles: the token
\* verification and the body read complete, a discovery round-trip returns
\* or fails, and the handler resolves or rejects.
FairInbound ==
    \A r \in Reqs :
        /\ WF_vars(ReqVerified(r))
        /\ WF_vars(ReqBodyRead(r))
        /\ WF_vars(ReqIldcpCached(r))
        /\ WF_vars(ReqIldcpFetched(r) \/ ReqIldcpFailed(r))
        /\ WF_vars(ReqHandlerDone(r) \/ ReqHandlerFailed(r))

SpecInboundFair == SpecInbound /\ FairInbound

\* The client table: multi-tenant mode over HTTP/2 with the local address
\* supplied at construction, the placeholder in the path or in the host (the
\* destination then decides the origin), and Prepare packets to g.n.a.1,
\* g.n.A.1 and x.y.
InitPool ==
    /\ Init
    /\ multi
    /\ ildcp = Some([clientAddress |-> AddrN, assetCode |-> "XYZ"])
    /\ url \in {UrlPathTemplate, UrlHostTemplate}
    /\ http2
    /\ ~sendIlpDestination

PoolDestinations == {DestA, DestUpperA, DestOther}

NextPool ==
    \/ Lifecycle
    \/ \E s \in Sends :
          \/ \E data \in PrepareBuffers(s, PoolDestinations) : SendDataCall(s, data)
          \/ SendStep(s)

SpecPool == InitPool /\ [][NextPool]_vars

\* The lifecycle calls, observed, over a plugin that has clients, a cached
\* local address and a handler: multi-tenant mode over HTTP/2 with the
\* placeholder in the host, and Prepare packets to g.n.a.1.
InitLifecycle ==
    /\ InitPool
    /\ url = UrlHostTemplate

NextLifecycle ==
    \/ ObservedConnect
    \/ ObservedDisconnect
    \/ ListenOk
    \/ ListenFail
    \/ RegisterDataHandler("h1")
    \/ DeregisterDataHandler
    \/ \E s \in Sends :
          \/ \E data \in PrepareBuffers(s, {DestA}) : SendDataCall(s, data)
          \/ SendStep(s)

SpecLifecycle == InitLifecycle /\ [][NextLifecycle]_vars

\* URL templating: multi-tenant mode over HTTP/2 on a connected plugin, with
\* the local address supplied or discovered by a round-trip, the placeholder
\* once in the path or twice in the URL, and Prepare packets to g.n.a.1,
\* g.n.b/c.x and x.y.
InitRouting ==
    /\ Init
    /\ multi
    /\ ildcp \in {None, Some([clientAddress |-> AddrN, assetCode |-> "XYZ"])}
    /\ url \in {UrlPathTemplate, UrlTwoTemplate}
    /\ http2
    /\ ~sendIlpDestination

RoutingDestinations == {DestA, DestBad, DestOther}

NextRouting ==
    \/ Connect
    \/ RegisterDataHandler("h1")
    \/ DeregisterDataHandler
    \/ \E s \in Sends :
          \/ \E data \in PrepareBuffers(s, RoutingDestinations) : SendDataCall(s, data)
          \/ SendStep(s)
          \/ SendRoundTripStep(s)

SpecRouting == InitRouting /\ [][NextRouting]_vars

\* Discovery from both sides: multi-tenant mode over HTTP/2 on a connected
\* plugin that starts with an empty cache, inbound discovery requests of
\* the peer bob, sends of Prepare packets to g.n.a.1, and a handler that
\* comes and goes.
InitDiscovery ==
    /\ Init
    /\ multi
    /\ ildcp = None
    /\ url = UrlPathTemplate
    /\ http2
    /\ ~sendIlpDestination

NextDiscovery ==
    \/ Connect
    \/ ListenOk
    \/ RegisterDataHandler("h1")
    \/ DeregisterDataHandler
    \/ \E r \in Reqs :
          \/ ReqArrive(r)
          \/ ReqVerified(r)
          \/ ReqBodyReadOf(r, {1}, {Buffer("prepare", PEER_CONFIG, r)}, {<<"b", "o", "b">>})
          \/ ReqIldcpCached(r)
          \/ ReqIldcpFetched(r)
          \/ ReqIldcpFailed(r)
    \/ \E s \in Sends :
          \/ \E data \in PrepareBuffers(s, {DestA}) : SendDataCall(s, data)
          \/ SendStep(s)
          \/ SendRoundTripStep(s)

SpecDiscovery == InitDiscovery /\ [][NextDiscovery]_vars

\* The handler slot under concurrent registration: multi-tenant mode on a
\* connected plugin that starts with an empty cache, two handlers that
\* replace each other and are deregistered, and requests of the peer bob
\* that post a Prepare to peer.config or to g.n.a.1.
InitHandler ==
    /\ InitInbound
    /\ multi
    /\ ildcp = None

NextHandler ==
    \/ Connect
    \/ ListenOk
    \/ Registration
    \/ \E r \in Reqs :
          \/ ObservedReqArrive(r)
          \/ ReqVerified(r)
          \/ ReqBodyReadOf(r, {1}, { Buffer("prepare", d, r) : d \in InboundDestinations },
                           {<<"b", "o", "b">>})
          \/ ReqIldcpCached(r)
          \/ ReqIldcpFetched(r)
          \/ ReqIldcpFailed(r)
          \/ ReqHandlerDone(r)
          \/ ReqHandlerFailed(r)

SpecHandler == InitHandler /\ [][NextHandler]_vars

(***************************************************************************)
(* Properties.                                                             *)
(***************************************************************************)
\* The step in which request r passes from pc `from` to another pc.
Leaves(r, from) == req[r].pc = from /\ req'[r].pc # from

\* C1: a non-GET request whose token _verifyToken does not accept is
\* answered 401 and the data handler is never invoked for it, neither as a
\* dispatch (arg, h) nor through a discovery round-trip (rt); its body is
\* not even read.
C1_RejectedTokenIs401 ==
    \A r \in Reqs :
        req[r].auth = "rejected" =>
            /\ req[r].pc = "done"
            /\ req[r].status = 401
            /\ req[r].body = Some(TextBody("invalid authorization"))
            /\ req[r].packet = None
            /\ req[r].arg = None
            /\ req[r].h = NoHandler
            /\ ~req[r].rt

\* A rejected token answered 401 while the plugin is disconnected, in
\* multi-tenant mode, with a handler registered.
C1_Witness ==
    \E r \in Reqs :
        /\ req[r].auth = "rejected"
        /\ req[r].status = 401
        /\ ~connected
        /\ multi
        /\ dataHandler # NoHandler

\* C2 (as claimed): no request's packet is passed to the data handler while
\* connected is false, whichever await the request was suspended at when
\* disconnect() ran.
C2_NoDispatchWhileDisconnected ==
    [][\A r \in Reqs : (req[r].pc # "handler" /\ req'[r].pc = "handler") => connected]_vars

\* C3: when the token is accepted and the connected flag is false at the
\* check that follows, the request is answered 502 'server is closed': the
\* body is not read and the handler is not invoked, registered or not.
C3_DisconnectedIs502 ==
    [][\A r \in Reqs :
          (Leaves(r, "verify") /\ req'[r].auth = "accepted" /\ ~connected) =>
              /\ req'[r].pc = "done"
              /\ req'[r].status = 502
              /\ req'[r].body = Some(TextBody("server is closed"))
              /\ req'[r].packet = None
              /\ req'[r].arg = None
              /\ req'[r].h = NoHandler
              /\ ~req'[r].rt]_vars

\* An accepted token answered 502 'server is closed' with a handler registered.
C3_Witness ==
    \E r \in Reqs :
        /\ req[r].auth = "accepted"
        /\ req[r].status = 502
        /\ req[r].branch = "closed"
        /\ ~connected
        /\ dataHandler # NoHandler

\* C4 (as claimed): whenever connected is false, every client in the client
\* table has been closed.
C4_NoOpenClientWhileDisconnected ==
    ~connected => \A o \in DOMAIN http2Clients : clients[http2Clients[o]].closed

\* C5 (as claimed): every value a _fetchIldcp call has returned is the value
\* that was cached first.
C5_ReturnsFirstCached ==
    \A r \in Reqs : req[r].val # None => req[r].val = firstCached

\* C5 (amended): a _fetchIldcp call made while the cache is populated makes
\* no round-trip and returns the value cached at the call; a populated cache
\* is never emptied, and it changes only when a round-trip that started on
\* an empty cache returns, to the value that round-trip returns.
C5_CachedCallReturnsCache ==
    [][/\ \A r \in Reqs :
            (Leaves(r, "body") /\ req'[r].pc = "ildcp" /\ ildcp # None) =>
                ~req'[r].rt /\ req'[r].val = ildcp
       /\ \A r \in Reqs :
            (Leaves(r, "ildcp") /\ ~req[r].rt) =>
                /\ req'[r].val = req[r].val
                /\ req'[r].status = 200
                /\ ildcp' = ildcp
       /\ ildcp # None => ildcp' # None
       /\ ildcp' # ildcp =>
            \E r \in Reqs : Leaves(r, "ildcp") /\ req[r].rt /\ req'[r].val = ildcp']_vars

\* A call made on a populated cache has returned the cached value, which a
\* round-trip had written.
C5_Witness ==
    \E r, q \in Reqs :
        /\ req[r].pc = "done" /\ req[r].branch = "discovery" /\ ~req[r].rt
        /\ req[q].pc = "done" /\ req[q].branch = "discovery" /\ req[q].rt
        /\ req[r].val = ildcp
        /\ req[q].val = ildcp

\* C6: no two clients were created for one origin; every request of a send
\* went over the client the table holds for its URL's origin, so two sends
\* share a client exactly when their URLs share an origin.
C6_OneClientPerOrigin ==
    /\ \A i, j \in DOMAIN clients : clients[i].origin = clients[j].origin => i = j
    /\ \A o \in DOMAIN http2Clients :
          http2Clients[o] \in DOMAIN clients /\ clients[http2Clients[o]].origin = o
    /\ \A s \in Sends :
          snd[s].client # 0 =>
              /\ UrlOrigin(snd[s].url) \in DOMAIN http2Clients
              /\ http2Clients[UrlOrigin(snd[s].url)] = snd[s].client
    /\ \A s, t \in Sends :
          (snd[s].client # 0 /\ snd[t].client # 0) =>
              ((UrlOrigin(snd[s].url) = UrlOrigin(snd[t].url)) <=> (snd[s].client = snd[t].client))

\* Two sends in flight at once to URLs of one origin and different paths,
\* over one client.
C6_Witness ==
    \E s, t \in Sends :
        /\ snd[s].pc = "fetch" /\ snd[t].pc = "fetch"
        /\ snd[s].client # 0
        /\ snd[s].client = snd[t].client
        /\ snd[s].path # snd[t].path

\* C7: connect() called while connected, and disconnect() called while
\* disconnected, change neither the flag, the server, the client table, the
\* clients, the cache nor the handler slot, and emit nothing.
C7_RepeatedCallIsNoOp ==
    [][((tick' # tick /\ lastCall' = "connect" /\ connected)
            \/ (tick' # tick /\ lastCall' = "disconnect" /\ ~connected)) =>
          /\ UNCHANGED <<connected, httpServer, http2Clients, clients, ildcp, dataHandler>>
          /\ emitted' = << >>]_vars

\* connect() was just called on a connected plugin that has a client, a
\* cached address and a handler, and emitted nothing.
C7_Witness ==
    /\ lastCall = "connect"
    /\ emitted = << >>
    /\ connected
    /\ httpServer = "listening"
    /\ clients # << >>
    /\ ildcp # None
    /\ dataHandler # NoHandler

\* Whether the body request r read is a Prepare to the reserved discovery address.
ToDiscovery(r) ==
    /\ req[r].packet # None
    /\ IsPrepare(Get(req[r].packet))
    /\ Get(req[r].packet).destination = PEER_CONFIG

\* The discovery response for the value _fetchIldcp returned to request r:
\* its client address is that value's, a '.', and the ILP-Peer-Name header.
IsTenantResponse(r) ==
    /\ req[r].val # None
    /\ req[r].body # None
    /\ Get(req[r].body).type = "ildcp_response"
    /\ Get(req[r].body).clientAddress = Get(req[r].val).clientAddress \o <<".">> \o req[r].name

\* C8 (as claimed): in multi-tenant mode every answered request whose
\* Prepare is addressed to peer.config is answered 200 with the discovery
\* response.
C8_InterceptedIs200 ==
    \A r \in Reqs :
        (multi /\ ToDiscovery(r) /\ req[r].pc = "done") =>
            req[r].status = 200 /\ IsTenantResponse(r)

\* C8 (amended): in multi-tenant mode a request whose Prepare is addressed
\* to peer.config is intercepted: it waits for _fetchIldcp or is answered,
\* 200 with the discovery response when _fetchIldcp returned a value and 500
\* when it failed, and its packet is never passed to the handler as a
\* dispatched packet.  A Prepare to any other destination, and every body
\* when multi-tenant mode is off, goes to general dispatch: no _fetchIldcp
\* call is made for it.
C8_InterceptedExactlyOnDiscovery ==
    \A r \in Reqs :
        req[r].packet # None =>
            IF multi /\ ToDiscovery(r)
            THEN /\ req[r].pc \in {"ildcp", "done"}
                 /\ req[r].arg = None
                 /\ req[r].h = NoHandler
                 /\ req[r].pc = "done" =>
                       \/ req[r].status = 200 /\ req[r].branch = "discovery" /\ IsTenantResponse(r)
                       \/ req[r].status = 500 /\ req[r].branch = "discoveryFailed"
            ELSE IF multi /\ ~IsPrepare(Get(req[r].packet))
            THEN req[r].status = 500 /\ req[r].branch = "parseError" /\ req[r].arg = None
            ELSE /\ req[r].pc \in {"handler", "done"}
                 /\ req[r].branch \in {"", "noHandler", "dispatched", "handlerFailed"}
                 /\ req[r].val = None
                 /\ ~req[r].rt

\* A discovery request answered 200 with the tenant's address g.n.bob
\* while another request, to g.n.a.1, is with the handler.
C8_Witness ==
    /\ multi
    /\ \E r, q \in Reqs :
          /\ ToDiscovery(r)
          /\ req[r].status = 200
          /\ IsTenantResponse(r)
          /\ Get(req[r].body).clientAddress = AddrN \o <<".", "b", "o", "b">>
          /\ req[q].pc = "handler"
          /\ Get(req[q].arg).destination = DestA

\* Whether discovery interception applies to the body p.
InterceptionApplies(p) == multi /\ IsPrepare(p) /\ p.destination = PEER_CONFIG

\* C9 (as claimed): a request whose body was read within the ceiling is
\* answered 502 exactly when no handler is registered at that moment and
\* discovery interception does not apply to it.
C9_NoHandlerIs502 ==
    [][\A r \in Reqs :
          (Leaves(r, "body") /\ req'[r].packet # None) =>
              (req'[r].status = 502 <=>
                  (dataHandler = NoHandler /\ ~InterceptionApplies(Get(req'[r].packet))))]_vars

\* C9 (amended): a request whose body was read within the ceiling is
\* answered 502 'no handler registered.' exactly when no handler is
\* registered at that moment, discovery interception does not apply to it
\* and, in multi-tenant mode, the body is a Prepare; no later step of the
\* request answers 502.
C9_NoHandlerIs502ForPrepare ==
    [][/\ \A r \in Reqs :
            (Leaves(r, "body") /\ req'[r].packet # None) =>
                ((req'[r].status = 502 /\ req'[r].body = Some(TextBody("no handler registered.")))
                    <=> (/\ dataHandler = NoHandler
                         /\ ~InterceptionApplies(Get(req'[r].packet))
                         /\ multi => IsPrepare(Get(req'[r].packet))))
       /\ \A r \in Reqs :
            (Leaves(r, "ildcp") \/ Leaves(r, "handler")) => req'[r].status # 502]_vars

\* In multi-tenant mode a Prepare to g.n.a.1 was answered 502 'no handler
\* registered.' while the plugin is connected.
C9_Witness ==
    /\ multi
    /\ connected
    /\ \E r \in Reqs :
          /\ req[r].status = 502
          /\ req[r].branch = "noHandler"
          /\ Get(req[r].packet).destination = DestA

\* C10: the handler is invoked with the very buffer the request read, and a
\* dispatched request is answered 200 with the very buffer the handler
\* returned for that invocation, which answers the request's own packet.
C10_OwnPacketOwnResult ==
    \A r \in Reqs :
        /\ req[r].arg # None => req[r].arg = req[r].packet
        /\ req[r].branch = "dispatched" =>
              /\ req[r].status = 200
              /\ req[r].body = req[r].ret
              /\ Get(req[r].body).re = Get(req[r].packet).id
              /\ Get(req[r].packet).id = r

\* The second request was answered with its handler result while the first
\* one's handler has not returned yet.
C10_Witness ==
    /\ MaxRequests >= 2
    /\ req[1].pc = "handler"
    /\ req[2].branch = "dispatched"
    /\ req[2].status = 200

\* The step in which send s passes from pc `from` to another pc.
SendLeaves(s, from) == snd[s].pc = from /\ snd'[s].pc # from

\* C11: sendData called while connected is false fails at once with 'plugin
\* is not connected.': the call never waits for a token, keeps no packet,
\* reads no destination, makes no _fetchIldcp call, gets no client and
\* issues no request, and the flag, the server, the cache, the client table,
\* the clients and the handler slot are as they were; a failed send does
\* nothing more.
C11_DisconnectedSendFails ==
    [][/\ \A s \in Sends :
            (SendLeaves(s, "new") /\ ~connected) =>
                /\ snd'[s] = [NewSend EXCEPT !.pc = "done", !.error = "plugin is not connected."]
                /\ UNCHANGED <<connected, httpServer, ildcp, http2Clients, clients, dataHandler>>
       /\ \A s \in Sends : snd[s].pc = "done" => snd'[s] = snd[s]]_vars

\* A send failed with 'plugin is not connected.' on a disconnected plugin
\* whose table holds a client and whose cache is populated.
C11_Witness ==
    /\ ~connected
    /\ ildcp # None
    /\ DOMAIN http2Clients # {}
    /\ \E s \in Sends :
          /\ snd[s].error = "plugin is not connected."
          /\ snd[s].data = None
          /\ snd[s].client = 0

\* The routing key of send s, given the local address _fetchIldcp returned
\* to it: what follows the address and one more character in the packet's
\* destination, up to the next '.'.
RoutingKey(s) ==
    LET destination == Get(snd[s].data).destination
        skip == Len(Get(snd[s].val).clientAddress) + 1
        rest == IF skip >= Len(destination) THEN << >>
                ELSE [i \in 1..(Len(destination) - skip) |-> destination[i + skip]]
        dots == { i \in DOMAIN rest : rest[i] = "." }
    IN  IF dots = {} THEN rest
        ELSE [i \in 1..((CHOOSE d \in dots : \A e \in dots : d <= e) - 1) |-> rest[i]]

\* Whether a routing key has a character that is no letter, digit, '_' or '-'.
HasForbiddenCharacter(key) ==
    \E i \in DOMAIN key :
        key[i] \notin (LowerCase \cup UpperCase \cup Digits \cup {"_", "-"})

\* C12: in multi-tenant mode, a send whose routing key has a character
\* other than a letter, a digit, '_' or '-' fails with 'invalid address
\* segment' when _fetchIldcp has returned: it gets no client, no client is
\* created and the table is not written, no request is issued, and the send
\* does nothing more; every send that issued a request had a key without
\* such a character.
C12_InvalidSegmentFailsBeforeFetch ==
    [][/\ \A s \in Sends :
            (multi /\ SendLeaves(s, "url") /\ snd'[s].val # None
                /\ HasForbiddenCharacter(RoutingKey(s)'))
            => /\ snd'[s].pc = "done"
               /\ snd'[s].error = "invalid address segment"
               /\ snd'[s].client = 0
               /\ snd'[s].url = << >>
               /\ snd'[s].result = None
               /\ UNCHANGED <<clients, http2Clients>>
       /\ \A s \in Sends :
            snd[s].error = "invalid address segment" => snd'[s] = snd[s]
       /\ \A s \in Sends :
            (multi /\ snd'[s].pc = "fetch") => ~HasForbiddenCharacter(RoutingKey(s)')]_vars

\* The send to g.n.b/c.x failed with 'invalid address segment' on the local
\* address a round-trip had discovered, while another send has a client.
C12_Witness ==
    \E s, t \in Sends :
        /\ snd[s].error = "invalid address segment"
        /\ Get(snd[s].data).destination = DestBad
        /\ snd[s].rt
        /\ RoutingKey(s) = <<"b", "/", "c">>
        /\ snd[t].client # 0

\* C13: a GET request is answered 200 'OK' in the step in which it arrives:
\* _verifyToken is not called for it, its body is not read, no _fetchIldcp
\* call is made and the handler is not invoked, whatever the connected flag
\* and the handler slot are.
C13_GetIs200 ==
    \A r \in Reqs :
        req[r].method = "GET" =>
            /\ req[r].pc = "done"
            /\ req[r].status = 200
            /\ req[r].body = Some(TextBody("OK"))
            /\ req[r].auth = ""
            /\ req[r].packet = None
            /\ req[r].arg = None
            /\ req[r].h = NoHandler
            /\ req[r].val = None
            /\ ~req[r].rt

\* A GET answered 200 'OK' after disconnect(), with no handler registered,
\* while a POST on the same server was answered 502.
C13_Witness ==
    /\ ~connected
    /\ dataHandler = NoHandler
    /\ MaxRequests >= 2
    /\ req[1].method = "POST" /\ req[1].status = 502
    /\ req[2].method = "GET" /\ req[2].status = 200

\* The response of request r: its status, its body and the branch that wrote it.
Response(r) == <<req[r].status, req[r].body, req[r].branch>>

\* C14: every request gets exactly one response.  A request that is not
\* done has no response; the step that writes a response ends the request
\* (no branch continues into a later one); a request that is done takes no
\* further step, so its response is never written again; and when every
\* await settles, every request that arrived is eventually done.
C14_ExactlyOneResponse ==
    /\ [][\A r \in Reqs :
            /\ req[r].pc # "done" => Response(r) = <<0, None, "">>
            /\ Response(r)' # Response(r) =>
                  /\ req[r].pc # "done"
                  /\ req'[r].pc = "done"
                  /\ req'[r].status # 0
                  /\ req'[r].body # None
            /\ req[r].pc = "done" => req'[r] = req[r]]_vars
    /\ \A r \in Reqs : (req[r].pc # "new") ~> (req[r].pc = "done" /\ req[r].status # 0)

\* Both requests are answered, one by the handler's result and one by the
\* discovery response.
C14_Witness ==
    \E r, q \in Reqs :
        /\ req[r].pc = "done" /\ req[r].branch = "dispatched"
        /\ req[q].pc = "done" /\ req[q].branch = "discovery"

\* C15 (as claimed): whenever connected is true, the listen attempt of the
\* server has completed and the server is listening on the port.
C15_ConnectedImpliesListening == connected => httpServer = "listening"

\* C16 (as claimed): no send issues its HTTP request at a moment when
\* connected is false, whichever await the send was suspended at when
\* disconnect() ran.
C16_NoRequestWhileDisconnected ==
    [][\A s \in Sends : (snd[s].pc # "fetch" /\ snd'[s].pc = "fetch") => connected]_vars

\* C17: a _fetchIldcp call made while the cache is empty and no handler is
\* registered fails and leaves the cache empty.  Reached from an
\* intercepted discovery request, the request is answered with the error
\* (500) and no round-trip starts; reached from a send in multi-tenant
\* mode, the send fails with 'data handler must be registered to fetch
\* ildcp', gets no client and issues no request.
C17_FetchIldcpFailsWithoutHandler ==
    [][/\ \A r \in Reqs :
            (Leaves(r, "body") /\ multi /\ req'[r].packet # None
                /\ Get(req'[r].packet).destination = PEER_CONFIG
                /\ ildcp = None /\ dataHandler = NoHandler)
            => /\ req'[r].pc = "done"
               /\ req'[r].status = 500
               /\ req'[r].branch = "discoveryFailed"
               /\ req'[r].val = None
               /\ ~req'[r].rt
               /\ ildcp' = None
       /\ \A s \in Sends :
            (SendLeaves(s, "token") /\ snd'[s].error # "token" /\ multi
                /\ IsPrepare(Get(snd[s].data))
                /\ ildcp = None /\ dataHandler = NoHandler)
            => /\ snd'[s].pc = "done"
               /\ snd'[s].error = "data handler must be registered to fetch ildcp"
               /\ snd'[s].val = None
               /\ ~snd'[s].rt
               /\ snd'[s].client = 0
               /\ snd'[s].url = << >>
               /\ ildcp' = None
               /\ UNCHANGED <<clients, http2Clients>>
       /\ \A s \in Sends :
            snd[s].error = "data handler must be registered to fetch ildcp" => snd'[s] = snd[s]]_vars

\* With the cache still empty and no handler registered, a discovery
\* request was answered 500 and a send failed with the configuration error.
C17_Witness ==
    /\ ildcp = None
    /\ dataHandler = NoHandler
    /\ \E r \in Reqs : req[r].branch = "discoveryFailed" /\ req[r].status = 500 /\ ~req[r].rt
    /\ \E s \in Sends :
          /\ snd[s].error = "data handler must be registered to fetch ildcp"
          /\ snd[s].client = 0

\* Whether the string p, followed by a '.', starts the string t.
IsAddressPrefix(p, t) ==
    /\ Len(t) > Len(p)
    /\ \A i \in DOMAIN p : t[i] = p[i]
    /\ t[Len(p) + 1] = "."

\* The string t with every occurrence of the one-character string p
\* replaced by the string by.
RECURSIVE ReplaceEvery(_, _, _)
ReplaceEvery(t, p, by) ==
    IF t = << >> THEN << >>
    ELSE (IF <<t[1]>> = p THEN by ELSE <<t[1]>>) \o ReplaceEvery(Tail(t), p, by)

\* C18 (as claimed): in multi-tenant mode, the URL a send requests is the
\* base URL with its placeholder replaced by the routing key, no
\* placeholder remains in it, and the local address _fetchIldcp returned is
\* a prefix of the packet's destination, followed by a '.' and the key.
C18_UrlIsBaseWithRoutingKey ==
    \A s \in Sends :
        (multi /\ snd[s].pc = "fetch") =>
            /\ IsAddressPrefix(Get(snd[s].val).clientAddress, Get(snd[s].data).destination)
            /\ snd[s].url = ReplaceEvery(url, multiDelimiter, RoutingKey(s))
            /\ \A i \in DOMAIN snd[s].url : <<snd[s].url[i]>> # multiDelimiter

\* C19 (as claimed): every request a send issues over a client of the
\* table while the plugin is connected goes over a client that no
\* disconnect() has closed.
C19_NoRequestOverClosedClient ==
    [][\A s \in Sends :
          (snd[s].pc # "fetch" /\ snd'[s].pc = "fetch" /\ snd'[s].client # 0 /\ connected) =>
              ~clients'[snd'[s].client].closed]_vars

\* C20: the handler is invoked only in the step that finds the slot
\* occupied, and with the handler the slot holds in that step: a request
\* is passed to the handler (h) and a discovery round-trip is sent through
\* the handler (via) that is registered at that moment, never with an empty
\* slot, whatever the slot held when the request arrived and whatever is
\* registered or deregistered while the request waits.
C20_InvokesRegisteredHandler ==
    [][\A r \in Reqs :
          /\ (req[r].pc # "handler" /\ req'[r].pc = "handler") =>
                /\ Leaves(r, "body")
                /\ dataHandler # NoHandler
                /\ req'[r].h = dataHandler
                /\ dataHandler' = dataHandler
          /\ (~req[r].rt /\ req'[r].rt) =>
                /\ Leaves(r, "body")
                /\ dataHandler # NoHandler
                /\ req'[r].via = dataHandler
                /\ dataHandler' = dataHandler
          /\ req'[r].h # req[r].h => (req[r].pc # "handler" /\ req'[r].pc = "handler")
          /\ req'[r].via # req[r].via => (~req[r].rt /\ req'[r].rt)]_vars

\* A request that arrived while h1 was registered was passed to h2, and a
\* discovery request that arrived with an empty slot went through h1.
C20_Witness ==
    \E r, q \in Reqs :
        /\ seen[r] = "h1" /\ req[r].pc = "handler" /\ req[r].h = "h2"
        /\ seen[q] = NoHandler /\ req[q].rt /\ req[q].via = "h1"

=============================================================================
